---- MODULE Spec2Model ----
(***************************************************************************)
(* openmc::SharedArray<T> (include/openmc/shared_array.h): a fixed         *)
(* capacity array with a lock-free concurrent append, and its OpenMP       *)
(* device mirror.                                                          *)
(*                                                                         *)
(* Host memory is a heap of buffers addressed by buffer ids; a pointer is  *)
(* a buffer id, NULL, or WILD (the value of a pointer member that no       *)
(* constructor initialises).  The OpenMP device data environment is a      *)
(* table, keyed by host address, of the device copies made by              *)
(* "target enter data map(alloc: ...)".                                    *)
(*                                                                         *)
(* thread_safe_append is the only operation that may run concurrently      *)
(* (class comment, lines 17-24): every other operation is taken only when  *)
(* no append is in flight.  An append is two atomic steps: the atomic      *)
(* capture "idx = size_++", and the rest of the body, which reads only     *)
(* the thread's own idx and capacity_/data_ (never written by an append)   *)
(* and performs one write (the atomic clamp of size_, or the element).     *)
(* Threads have no identity in the code: the appends in flight are a bag   *)
(* of at most NThreads calls.                                              *)
(*                                                                         *)
(* openmc::Material (include/openmc/material.h): the nuclides of each      *)
(* material, its direct-address table, and the rows of the global          *)
(* flattened registry that the accessors nuclide(i) and                    *)
(* mat_nuclide_index(i) read.  A material is named by its index_.          *)
(***************************************************************************)
EXTENDS Integers, Sequences, FiniteSets, Bags, TLC

VARIABLES
  data_,         \* T* data_: host buffer pointer
  device_data_,  \* T* device_data_: pointer handed to the OpenMP mapping
  size_,         \* int64_t size_
  capacity_,     \* int64_t capacity_
  heap,          \* host heap: buffer id -> [live, cells]
  dev,           \* device data environment: host address -> [mapped, cells]
  calls,         \* the appends in flight, between the atomic capture and the return:
                 \* a bag of [idx, value], one per thread inside thread_safe_append
  hist,          \* bag of <<value, return>> of the appends completed since the
                 \* last constructor/reserve/clear/resize
  fresh,         \* whether the last operation was a reserve called at size_ = 0
  last,          \* the last completed operation other than an element access
                 \* (thread_safe_append, operator[])
  alive,         \* FALSE once the destructor has run
  fault,         \* "none", or the undefined behaviour / runtime error that stopped the program
  nuclide_,                     \* Material::nuclide_, per material
  mat_nuclide_index_,           \* Material::mat_nuclide_index_, per material
  materials_nuclide,            \* model::materials_nuclide, one row per index_
  materials_mat_nuclide_index,  \* model::materials_mat_nuclide_index, one row per index_
  finalized                     \* the materials on which finalize() has run

matVars == <<nuclide_, mat_nuclide_index_, materials_nuclide,
             materials_mat_nuclide_index, finalized>>

arrayVars == <<data_, device_data_, size_, capacity_, heap, dev, calls,
               hist, fresh, last, alive, fault>>

vars == <<data_, device_data_, size_, capacity_, heap, dev, calls,
          hist, fresh, last, alive, fault, matVars>>

\* ---------------------------------------------------------------- bounds
MaxCap == 2        \* largest capacity passed to reserve / the constructor
NThreads == 2      \* threads that may append concurrently
MaxCalls == 3      \* appends started between two reserve/clear/resize calls
NNuclides == 2     \* size of the global nuclide catalog
MaxNuclides == 2   \* nuclides added to one material

\* ------------------------------------------------------------- constants
NULL == 0
WILD == -1
REFUSED == -1
C_NONE == -1

Values == {0, 1}
Caps == 0..MaxCap
DeviceCaps == {0, MaxCap}   \* the capacities reserved in DeviceSpec
BufIds == {1, 2}    \* the host addresses the allocator hands out
ResizeArgs == (-1)..(MaxCap + 1)
MatIds == {0, 1}    \* the index_ of the registered materials

DeadBuf == [live |-> FALSE, cells |-> <<>>]
NoMap == [mapped |-> FALSE, cells |-> <<>>]

\* ---------------------------------------------------------------- helpers
IsBuf(p) == p \in BufIds
IsLive(p) == IsBuf(p) /\ heap[p].live
FreeBufs == {p \in BufIds : ~heap[p].live}
\* The addresses "new T[capacity]" may return: any that holds no live buffer.
\* While no address is live, mapped on the device or held by device_data_, the
\* addresses are interchangeable, and the one returned is named by FirstAddrs.
FirstAddrs == {1}
Untouched == \A q \in BufIds : ~heap[q].live /\ ~dev[q].mapped /\ device_data_ # q
NewAddrs == IF Untouched THEN FirstAddrs ELSE FreeBufs
Quiescent == calls = EmptyBag
InFlight == BagCardinality(calls)
Callable == alive /\ fault = "none"
\* the first n cells of src over the rest of dst
Overlay(src, dst, n) == [i \in 1..Len(dst) |-> IF i <= n THEN src[i] ELSE dst[i]]

\* T& operator[](int64_t i) / data()[i], read on the host
at(i) == heap[data_].cells[i + 1]
\* T& device_at(int64_t i), read on the host
device_at(i) == heap[device_data_].cells[i + 1]
size == size_
capacity == capacity_
\* the element of the device copy that device code finds at device_data_[i]
DeviceCopy(i) == dev[device_data_].cells[i + 1]
\* allocate_on_device() has made a device copy of the current host buffer
Mirrored ==
  /\ IsLive(data_) /\ device_data_ = data_
  /\ dev[data_].mapped /\ capacity_ <= Len(dev[data_].cells)

\* ------------------------------------------------------------ construction
\* SharedArray() = default: size_ and capacity_ are 0, data_ is not initialised.
DefaultCtor ==
  /\ data_ \in {NULL, WILD}
  /\ capacity_ = 0
  /\ heap = [p \in BufIds |-> DeadBuf]
  /\ last = "SharedArray"

\* SharedArray(int64_t capacity): data_ = new T[capacity].
CapacityCtor(caps) ==
  \E c \in caps, p \in FirstAddrs : \E cells \in [1..c -> Values] :
     /\ data_ = p
     /\ capacity_ = c
     /\ heap = [q \in BufIds |-> IF q = p THEN [live |-> TRUE, cells |-> cells]
                                          ELSE DeadBuf]
     /\ last = "SharedArray"

\* the registered materials, before any nuclide is added
NewMaterials ==
  /\ nuclide_ = [m \in MatIds |-> <<>>]
  /\ mat_nuclide_index_ = [m \in MatIds |-> <<>>]
  /\ materials_nuclide = [m \in MatIds |-> <<>>]
  /\ materials_mat_nuclide_index = [m \in MatIds |-> <<>>]
  /\ finalized = {}

Constructed(caps) ==
  /\ DefaultCtor \/ CapacityCtor(caps)
  /\ NewMaterials
  /\ device_data_ = WILD
  /\ size_ = 0
  /\ dev = [p \in BufIds |-> NoMap]
  /\ calls = EmptyBag
  /\ hist = EmptyBag
  /\ fresh = FALSE
  /\ alive = TRUE
  /\ fault = "none"

Init == Constructed(Caps)

\* ---------------------------------------------------------------- reserve
\* mutant: a reserve that starts the container over, resetting the size
reserve_resetting_size(c) ==
  /\ Callable /\ Quiescent
  /\ UNCHANGED matVars
  /\ \E p \in NewAddrs, cells \in [1..c -> Values] :
        /\ heap' = [heap EXCEPT ![p] = [live |-> TRUE, cells |-> cells]]
        /\ data_' = p
  /\ capacity_' = c
  /\ size_' = 0
  /\ last' = "reserve"
  /\ hist' = EmptyBag
  /\ fresh' = (size_ = 0)
  /\ UNCHANGED <<device_data_, dev, calls, alive, fault>>

\* mutant: a reserve that allocates but forgets to record the new capacity
reserve_keeping_capacity(c) ==
  /\ Callable /\ Quiescent
  /\ UNCHANGED matVars
  /\ \E p \in NewAddrs, cells \in [1..c -> Values] :
        /\ heap' = [heap EXCEPT ![p] = [live |-> TRUE, cells |-> cells]]
        /\ data_' = p
  /\ last' = "reserve"
  /\ hist' = EmptyBag
  /\ fresh' = (size_ = 0)
  /\ UNCHANGED <<device_data_, size_, capacity_, dev, calls, alive, fault>>

reserve(c) ==
  /\ Callable /\ Quiescent
  /\ UNCHANGED matVars
  /\ \E p \in NewAddrs, cells \in [1..c -> Values] :
        /\ heap' = [heap EXCEPT ![p] = [live |-> TRUE, cells |-> cells]]
        /\ data_' = p
  /\ capacity_' = c
  /\ last' = "reserve"
  /\ hist' = EmptyBag
  /\ fresh' = (size_ = 0)
  /\ UNCHANGED <<device_data_, size_, dev, calls, alive, fault>>

\* ----------------------------------------------------- thread_safe_append
\* mutant: the increment without "omp atomic": a thread that races with another
\* one loses its update of size_
thread_safe_append_claim_racy(v) ==
  /\ Callable
  /\ UNCHANGED matVars
  /\ InFlight < NThreads
  /\ BagCardinality(hist) + InFlight < MaxCalls
  /\ calls' = calls (+) SetToBag({[idx |-> size_, value |-> v]})
  /\ size_' = IF InFlight > 0 THEN size_ ELSE size_ + 1
  /\ UNCHANGED <<data_, device_data_, capacity_, heap, dev, hist, fresh, last, alive, fault>>

\* mutant: the capacity is checked before the claim, and a full array is not
\* incremented
thread_safe_append_claim_checked_first(v) ==
  /\ Callable
  /\ UNCHANGED matVars
  /\ InFlight < NThreads
  /\ BagCardinality(hist) + InFlight < MaxCalls
  /\ calls' = calls (+) SetToBag({[idx |-> size_, value |-> v]})
  /\ size_' = IF size_ >= capacity_ THEN size_ ELSE size_ + 1
  /\ UNCHANGED <<data_, device_data_, capacity_, heap, dev, hist, fresh, last, alive, fault>>

\* #pragma omp atomic capture: idx = size_++
thread_safe_append_claim(v) ==
  /\ Callable
  /\ UNCHANGED matVars
  /\ InFlight < NThreads
  /\ BagCardinality(hist) + InFlight < MaxCalls
  /\ calls' = calls (+) SetToBag({[idx |-> size_, value |-> v]})
  /\ size_' = size_ + 1
  /\ UNCHANGED <<data_, device_data_, capacity_, heap, dev, hist, fresh, last, alive, fault>>

\* the call c returns r
Return(c, r) ==
  /\ hist' = hist (+) SetToBag({<<c.value, r>>})
  /\ calls' = calls (-) SetToBag({c})

\* mutant: an overflowing append returns -1 without clamping size_
thread_safe_append_finish_no_clamp(c) ==
  /\ Callable
  /\ UNCHANGED matVars
  /\ BagIn(c, calls)
  /\ IF c.idx >= capacity_
       THEN /\ Return(c, REFUSED)
            /\ UNCHANGED <<size_, heap, fault>>
       ELSE IF IsLive(data_) /\ c.idx >= 0 /\ c.idx < Len(heap[data_].cells)
       THEN /\ heap' = [heap EXCEPT ![data_].cells[c.idx + 1] = c.value]
            /\ Return(c, c.idx)
            /\ UNCHANGED <<size_, fault>>
       ELSE /\ fault' = "write outside the buffer"
            /\ UNCHANGED <<size_, heap, hist, calls>>
  /\ UNCHANGED <<data_, device_data_, capacity_, dev, fresh, last, alive>>

\* mutant: an overflowing append stores its value in the last slot before it
\* returns -1
thread_safe_append_finish_clamped_write(c) ==
  /\ Callable
  /\ UNCHANGED matVars
  /\ BagIn(c, calls)
  /\ IF c.idx >= capacity_
       THEN /\ size_' = capacity_
            /\ Return(c, REFUSED)
            /\ heap' = IF IsLive(data_) /\ capacity_ > 0
                          THEN [heap EXCEPT ![data_].cells[capacity_] = c.value]
                          ELSE heap
            /\ UNCHANGED fault
       ELSE IF IsLive(data_) /\ c.idx >= 0 /\ c.idx < Len(heap[data_].cells)
       THEN /\ heap' = [heap EXCEPT ![data_].cells[c.idx + 1] = c.value]
            /\ Return(c, c.idx)
            /\ UNCHANGED <<size_, fault>>
       ELSE /\ fault' = "write outside the buffer"
            /\ UNCHANGED <<size_, heap, hist, calls>>
  /\ UNCHANGED <<data_, device_data_, capacity_, dev, fresh, last, alive>>

\* mutant: an overflowing append clamps size_ to the last index instead of the
\* capacity
thread_safe_append_finish_clamp_to_last(c) ==
  /\ Callable
  /\ UNCHANGED matVars
  /\ BagIn(c, calls)
  /\ IF c.idx >= capacity_
       THEN /\ size_' = capacity_ - 1
            /\ Return(c, REFUSED)
            /\ UNCHANGED <<heap, fault>>
       ELSE IF IsLive(data_) /\ c.idx >= 0 /\ c.idx < Len(heap[data_].cells)
       THEN /\ heap' = [heap EXCEPT ![data_].cells[c.idx + 1] = c.value]
            /\ Return(c, c.idx)
            /\ UNCHANGED <<size_, fault>>
       ELSE /\ fault' = "write outside the buffer"
            /\ UNCHANGED <<size_, heap, hist, calls>>
  /\ UNCHANGED <<data_, device_data_, capacity_, dev, fresh, last, alive>>

\* if (idx >= capacity_) { size_ = capacity_; return -1; }
\* data_[idx] = value; return idx;
thread_safe_append_finish(c) ==
  /\ Callable
  /\ UNCHANGED matVars
  /\ BagIn(c, calls)
  /\ IF c.idx >= capacity_
       THEN /\ size_' = capacity_
            /\ Return(c, REFUSED)
            /\ UNCHANGED <<heap, fault>>
       ELSE IF IsLive(data_) /\ c.idx >= 0 /\ c.idx < Len(heap[data_].cells)
       THEN /\ heap' = [heap EXCEPT ![data_].cells[c.idx + 1] = c.value]
            /\ Return(c, c.idx)
            /\ UNCHANGED <<size_, fault>>
       ELSE /\ fault' = "write outside the buffer"
            /\ UNCHANGED <<size_, heap, hist, calls>>
  /\ UNCHANGED <<data_, device_data_, capacity_, dev, fresh, last, alive>>

\* ------------------------------------------------------------------ clear
\* mutant: a clear that releases the storage and zeroes the size, not the capacity
clear_body_keeping_capacity(name) ==
  IF data_ # NULL /\ ~IsLive(data_)
    THEN /\ fault' = "delete[] of a pointer that is not an allocation"
         /\ UNCHANGED <<data_, heap, size_, capacity_, last, hist, fresh>>
    ELSE /\ heap' = IF data_ = NULL THEN heap ELSE [heap EXCEPT ![data_] = DeadBuf]
         /\ data_' = NULL
         /\ size_' = 0
         /\ last' = name
         /\ hist' = EmptyBag
         /\ fresh' = FALSE
         /\ UNCHANGED <<capacity_, fault>>

\* the body of clear(), which the destructor runs too
clear_body(name) ==
  IF data_ # NULL /\ ~IsLive(data_)
    THEN /\ fault' = "delete[] of a pointer that is not an allocation"
         /\ UNCHANGED <<data_, heap, size_, capacity_, last, hist, fresh>>
    ELSE /\ heap' = IF data_ = NULL THEN heap ELSE [heap EXCEPT ![data_] = DeadBuf]
         /\ data_' = NULL
         /\ size_' = 0
         /\ capacity_' = 0
         /\ last' = name
         /\ hist' = EmptyBag
         /\ fresh' = FALSE
         /\ UNCHANGED fault

clear ==
  /\ Callable /\ Quiescent
  /\ UNCHANGED matVars
  /\ clear_body("clear")
  /\ UNCHANGED <<device_data_, dev, calls, alive>>

\* ~SharedArray() { this->clear(); }
Destructor ==
  /\ Callable /\ Quiescent
  /\ UNCHANGED matVars
  /\ clear_body("~SharedArray")
  /\ alive' = FALSE
  /\ UNCHANGED <<device_data_, dev, calls>>

\* ----------------------------------------------------------------- resize
\* mutant: a resize that does not let the size pass the capacity
resize_within_capacity(n) ==
  /\ Callable /\ Quiescent
  /\ UNCHANGED matVars
  /\ size_' = IF n > capacity_ THEN capacity_ ELSE n
  /\ last' = "resize"
  /\ hist' = EmptyBag
  /\ fresh' = FALSE
  /\ UNCHANGED <<data_, device_data_, capacity_, heap, dev, calls, alive, fault>>

\* void resize(int64_t size) {size_ = size;}
resize(n) ==
  /\ Callable /\ Quiescent
  /\ UNCHANGED matVars
  /\ size_' = n
  /\ last' = "resize"
  /\ hist' = EmptyBag
  /\ fresh' = FALSE
  /\ UNCHANGED <<data_, device_data_, capacity_, heap, dev, calls, alive, fault>>

\* ------------------------------------------------------------- operator[]
\* a[i] = v on the host, i within the buffer (no bounds checking is performed)
subscript_write(i, v) ==
  /\ Callable /\ Quiescent
  /\ UNCHANGED matVars
  /\ IsLive(data_) /\ i >= 0 /\ i < Len(heap[data_].cells)
  /\ heap' = [heap EXCEPT ![data_].cells[i + 1] = v]
  /\ UNCHANGED <<data_, device_data_, size_, capacity_, dev, calls, hist, fresh, last, alive, fault>>

\* ----------------------------------------------------------- device mirror
\* a device operation that returned is the last operation; one that stopped
\* the program leaves the record as it was
Completed(name) ==
  /\ last' = IF fault' = "none" THEN name ELSE last
  /\ fresh' = (fault' # "none" /\ fresh)

\* device_data_ = data_; #pragma omp target enter data map(alloc: device_data_[:capacity_])
allocate_on_device ==
  /\ Callable /\ Quiescent
  /\ UNCHANGED matVars
  /\ device_data_' = data_
  /\ IF ~IsBuf(data_)
       THEN UNCHANGED <<dev, fault>>
       ELSE IF ~dev[data_].mapped
       THEN /\ \E cells \in [1..capacity_ -> Values] :
                 dev' = [dev EXCEPT ![data_] = [mapped |-> TRUE, cells |-> cells]]
            /\ UNCHANGED fault
       ELSE IF capacity_ <= Len(dev[data_].cells)
       THEN UNCHANGED <<dev, fault>>
       ELSE /\ fault' = "array section partially present on the device"
            /\ UNCHANGED dev
  /\ Completed("allocate_on_device")
  /\ UNCHANGED <<data_, size_, capacity_, heap, calls, hist, alive>>

\* mutant: only the first size_ elements are pushed
copy_host_to_device_size_only ==
  /\ Callable /\ Quiescent
  /\ UNCHANGED matVars
  /\ IF ~IsBuf(device_data_) \/ capacity_ = 0
       THEN UNCHANGED <<dev, fault>>
       ELSE IF ~dev[device_data_].mapped
       THEN UNCHANGED <<dev, fault>>
       ELSE IF /\ capacity_ <= Len(dev[device_data_].cells)
               /\ IsLive(device_data_)
               /\ capacity_ <= Len(heap[device_data_].cells)
       THEN /\ dev' = [dev EXCEPT ![device_data_].cells =
                         Overlay(heap[device_data_].cells, @, size_)]
            /\ UNCHANGED fault
       ELSE /\ fault' = "target update of a section not in the mapped buffer"
            /\ UNCHANGED dev
  /\ Completed("copy_host_to_device")
  /\ UNCHANGED <<data_, device_data_, size_, capacity_, heap, calls, hist, alive>>

\* #pragma omp target update to(device_data_[:capacity_])
copy_host_to_device ==
  /\ Callable /\ Quiescent
  /\ UNCHANGED matVars
  /\ IF ~IsBuf(device_data_) \/ capacity_ = 0
       THEN UNCHANGED <<dev, fault>>
       ELSE IF ~dev[device_data_].mapped
       THEN UNCHANGED <<dev, fault>>
       ELSE IF /\ capacity_ <= Len(dev[device_data_].cells)
               /\ IsLive(device_data_)
               /\ capacity_ <= Len(heap[device_data_].cells)
       THEN /\ dev' = [dev EXCEPT ![device_data_].cells =
                         Overlay(heap[device_data_].cells, @, capacity_)]
            /\ UNCHANGED fault
       ELSE /\ fault' = "target update of a section not in the mapped buffer"
            /\ UNCHANGED dev
  /\ Completed("copy_host_to_device")
  /\ UNCHANGED <<data_, device_data_, size_, capacity_, heap, calls, hist, alive>>

\* mutant: the commented-out body restored, "target update from(device_data_[:capacity_])"
copy_device_to_host_implemented ==
  /\ Callable /\ Quiescent
  /\ UNCHANGED matVars
  /\ heap' = IF /\ IsLive(device_data_)
                /\ dev[device_data_].mapped
                /\ capacity_ <= Len(dev[device_data_].cells)
                /\ capacity_ <= Len(heap[device_data_].cells)
               THEN [heap EXCEPT ![device_data_].cells =
                       Overlay(dev[device_data_].cells, @, capacity_)]
               ELSE heap
  /\ UNCHANGED fault
  /\ Completed("copy_device_to_host")
  /\ UNCHANGED <<data_, device_data_, size_, capacity_, dev, calls, hist, alive>>

\* the body is commented out
copy_device_to_host ==
  /\ Callable /\ Quiescent
  /\ UNCHANGED matVars
  /\ UNCHANGED fault
  /\ Completed("copy_device_to_host")
  /\ UNCHANGED <<data_, device_data_, size_, capacity_, heap, dev, calls, hist, alive>>

\* ------------------------------------------------------------------- Next
\* Up to NThreads threads append concurrently, between calls of the operations
\* that need the array to themselves.
Next ==
  \/ \E c \in Caps : reserve(c)
  \/ \E v \in Values : thread_safe_append_claim(v)
  \/ \E c \in BagToSet(calls) : thread_safe_append_finish(c)
  \/ clear
  \/ Destructor
  \/ \E n \in ResizeArgs : resize(n)

Spec == Init /\ [][Next]_vars

\* ------------------------------------------------------------- DeviceSpec
\* thread_safe_append called by the only thread that uses the array: the whole
\* body in one step
thread_safe_append(v) ==
  /\ Callable /\ Quiescent
  /\ UNCHANGED matVars
  /\ LET i == size_ IN
     IF i >= capacity_
       THEN /\ size_' = capacity_
            /\ UNCHANGED <<heap, fault>>
       ELSE IF IsLive(data_) /\ i >= 0 /\ i < Len(heap[data_].cells)
       THEN /\ heap' = [heap EXCEPT ![data_].cells[i + 1] = v]
            /\ size_' = i + 1
            /\ UNCHANGED fault
       ELSE /\ fault' = "write outside the buffer"
            /\ size_' = i + 1
            /\ UNCHANGED heap
  /\ UNCHANGED <<data_, device_data_, capacity_, dev, calls, hist, fresh, last, alive>>

\* The host array and its device mirror, used from one thread.
DeviceNext ==
  \/ \E c \in DeviceCaps : reserve(c)
  \/ \E v \in Values : thread_safe_append(v)
  \/ \E i \in 0..(MaxCap - 1), v \in Values : subscript_write(i, v)
  \/ clear
  \/ Destructor
  \/ allocate_on_device
  \/ copy_host_to_device
  \/ copy_device_to_host

DeviceInit == Constructed(DeviceCaps)

DeviceSpec == DeviceInit /\ [][DeviceNext]_vars

\* --------------------------------------------------------------- Material
GlobalNuclides == 0..(NNuclides - 1)
\* the positions of the global nuclide g in a material's nuclide_
Positions(m, g) == {v \in 0..(Len(nuclide_[m]) - 1) : nuclide_[m][v + 1] = g}

\* int& nuclide(int i): model::materials_nuclide(index_, i)
nuclide(m, i) == materials_nuclide[m][i + 1]
\* int& mat_nuclide_index(int i): model::materials_mat_nuclide_index(index_, i)
mat_nuclide_index(m, g) == materials_mat_nuclide_index[m][g + 1]

\* add_nuclide(name, density): name resolved to the global index g, appended to
\* nuclide_ (with its element, density and p0 flag, which are not modelled)
add_nuclide(m, g) ==
  /\ m \notin finalized
  /\ Len(nuclide_[m]) < MaxNuclides
  /\ nuclide_' = [nuclide_ EXCEPT ![m] = Append(@, g)]
  /\ UNCHANGED <<mat_nuclide_index_, materials_nuclide,
                 materials_mat_nuclide_index, finalized>>
  /\ UNCHANGED arrayVars

\* init_nuclide_index(): a table sized to the global catalog that holds, for
\* every global nuclide, its local position in nuclide_ if present, else -1
init_nuclide_index(m, table) ==
  /\ Len(table) = NNuclides
  /\ \A g \in GlobalNuclides :
        IF Positions(m, g) = {} THEN table[g + 1] = C_NONE
                                ELSE table[g + 1] \in Positions(m, g)

\* finalize(), once per material after all its nuclides are added: builds the
\* direct-address table and populates the material's rows of the registry
\* (densities and thermal tables are not modelled)
finalize(m) ==
  /\ m \notin finalized
  /\ \E table \in [1..NNuclides -> {C_NONE} \cup (0..(MaxNuclides - 1))] :
        /\ init_nuclide_index(m, table)
        /\ mat_nuclide_index_' = [mat_nuclide_index_ EXCEPT ![m] = table]
        /\ materials_mat_nuclide_index' =
              [materials_mat_nuclide_index EXCEPT ![m] = table]
  /\ materials_nuclide' = [materials_nuclide EXCEPT ![m] = nuclide_[m]]
  /\ finalized' = finalized \cup {m}
  /\ UNCHANGED nuclide_
  /\ UNCHANGED arrayVars

MaterialNext ==
  \/ \E m \in MatIds, g \in GlobalNuclides : add_nuclide(m, g)
  \/ \E m \in MatIds : finalize(m)

\* the materials alone; the array is not used
MaterialInit == Constructed({})

MaterialSpec == MaterialInit /\ [][MaterialNext]_vars

\* ----------------------------------------------------------------- claims
\* reserve, thread_safe_append and clear alone (no resize)
ReserveAppendClearNext ==
  \/ \E c \in Caps : reserve(c)
  \/ \E v \in Values : thread_safe_append_claim(v)
  \/ \E c \in BagToSet(calls) : thread_safe_append_finish(c)
  \/ clear

ReserveAppendClearSpec == Init /\ [][ReserveAppendClearNext]_vars

Min(a, b) == IF a <= b THEN a ELSE b
\* how many of the completed appends returned r
NumReturned(r) ==
  BagCardinality([e \in {x \in BagToSet(hist) : x[2] = r} |-> CopiesIn(e, hist)])
\* the indices the completed appends returned
ReturnedIndices == {e[2] : e \in {x \in BagToSet(hist) : x[2] >= 0}}

\* C1: on an array reserved with capacity C while its size was 0, once N
\* concurrent appends have all returned, min(N, C) of them returned the indices
\* 0..min(N,C)-1, each exactly once, the other N - min(N,C) returned -1, and
\* size() = min(N, C).
C1_AppendCorrectness ==
  (last = "reserve" /\ fresh /\ Quiescent) =>
     LET N == BagCardinality(hist)
         m == Min(N, capacity)
     IN /\ ReturnedIndices = 0..(m - 1)
        /\ \A i \in 0..(m - 1) : NumReturned(i) = 1
        /\ NumReturned(REFUSED) = N - m
        /\ size = m

\* C1 witness: more appends than slots have returned on a freshly reserved
\* array of at least two slots.
C1_Witness ==
  /\ last = "reserve" /\ fresh /\ Quiescent
  /\ capacity >= 2
  /\ BagCardinality(hist) > capacity

\* C2 as stated: size <= capacity in every reachable state, the states between
\* an append's increment and its clamp included.
C2_SizeNeverAboveCapacity == size_ <= capacity_

\* C2 amended: size <= capacity + the number of appends in flight, in every
\* state but those after a reserve in which no append has returned yet
\* (reserve keeps the size, which may exceed the new capacity); so size <=
\* capacity whenever no append is in flight.
C2_SizeWithinCapacityWhenQuiescent ==
  (hist # EmptyBag \/ last # "reserve") => size_ <= capacity_ + InFlight

\* C2 witness: an append overflowed an array with slots and returned; no
\* append is in flight and the size is the capacity.
C2_Witness ==
  /\ Quiescent /\ capacity_ > 0 /\ size_ = capacity_
  /\ NumReturned(REFUSED) > 0

\* C3 as stated: size() == 0 immediately after reserve returns.
C3_ReserveResetsSize ==
  (last = "reserve" /\ hist = EmptyBag /\ Quiescent) => size = 0

\* C3 amended: reserve keeps the size: size() after reserve returns is size()
\* before the call (0 only if it was 0 before).
C3_ReserveKeepsSize ==
  [][(\E c \in Caps : reserve(c)) => size_' = size_]_vars

\* C3 witness: reserve has just returned on an array whose size is not 0.
C3_Witness ==
  /\ last = "reserve" /\ hist = EmptyBag /\ Quiescent
  /\ size > 0 /\ ~fresh

\* C4: reserve(capacity) leaves size() as it was and makes capacity() its
\* argument.
C4_ReserveFrame ==
  [][\A c \in Caps : reserve(c) => (size' = size /\ capacity' = c)]_vars

\* C4 witness: reserve has just returned with a capacity below the size it kept.
C4_Witness ==
  /\ last = "reserve" /\ hist = EmptyBag /\ Quiescent
  /\ size > capacity /\ capacity > 0

\* C5: an append that is refused (its idx >= capacity) returns -1 and neither of
\* its two steps writes a slot of any host buffer.
C5_RefusedAppendWritesNothing ==
  [][/\ (\E v \in Values : thread_safe_append_claim(v)) => heap' = heap
     /\ \A c \in BagToSet(calls) :
           (thread_safe_append_finish(c) /\ c.idx >= capacity_)
              => /\ heap' = heap
                 /\ hist' = hist (+) SetToBag({<<c.value, REFUSED>>})]_vars

\* C5 witness: an append was refused on an array that has slots holding the
\* other value.
C5_Witness ==
  /\ capacity_ > 0 /\ IsLive(data_)
  /\ \E v \in Values : /\ BagIn(<<v, REFUSED>>, hist)
                        /\ \A i \in 0..(capacity_ - 1) : at(i) # v

\* C6: every completed append that returned idx >= 0 is the only one that
\* returned idx, and slot idx holds the value it passed.
C6_ReturnedSlotHoldsValue ==
  \A e \in BagToSet(hist) :
     e[2] >= 0 => /\ IsLive(data_)
                  /\ e[2] < capacity_
                  /\ at(e[2]) = e[1]
                  /\ NumReturned(e[2]) = 1

\* C6 witness: two appends that were in flight together have filled two slots
\* with different values.
C6_Witness ==
  /\ Quiescent
  /\ \E i, j \in 0..(capacity_ - 1) :
        i # j /\ BagIn(<<0, i>>, hist) /\ BagIn(<<1, j>>, hist)

\* C7: after clear() the capacity is 0 and the storage released; every append
\* made from then on returns -1 and writes no element, and size() is 0 whenever
\* none is in flight.
C7_ClearedArrayRefuses ==
  [][last' = "clear" =>
       /\ capacity_' = 0 /\ data_' = NULL
       /\ \A e \in BagToSet(hist') : e[2] = REFUSED
       /\ (calls' = EmptyBag => size_' = 0)
       /\ (last = "clear" => heap' = heap)]_vars

\* C7 witness: two appends have been refused since a clear() that released a
\* reserved buffer.
C7_Witness ==
  /\ last = "clear" /\ Quiescent /\ size = 0 /\ capacity = 0
  /\ NumReturned(REFUSED) >= 2

\* a host-side write of an element: a[i] = v, or an append
HostWrite ==
  \/ \E i \in 0..(MaxCap - 1), v \in Values : subscript_write(i, v)
  \/ \E v \in Values : thread_safe_append(v)

\* C8 as stated: once allocate_on_device() has run, a host-side write (through
\* operator[] or thread_safe_append) does not change what device_at(i) returns,
\* for any slot i.
C8_HostWriteNotSeenThroughDeviceAt ==
  [][(Mirrored /\ HostWrite) =>
        \A i \in 0..(capacity_ - 1) : device_at(i)' = device_at(i)]_vars

\* C9: copy_host_to_device() on an array mirrored by allocate_on_device() leaves
\* the device copy equal to the host buffer in every slot of [0, capacity),
\* whatever the size.
C9_CopyPushesAllCapacity ==
  [][(Mirrored /\ copy_host_to_device) =>
        \A i \in 0..(capacity_ - 1) : DeviceCopy(i)' = at(i)']_vars

\* C9 witness: copy_host_to_device() has run on a mirrored array with size <
\* capacity, and the device copy equals the host buffer beyond size too.
C9_Witness ==
  /\ last = "copy_host_to_device" /\ Mirrored
  /\ size < capacity
  /\ \A i \in 0..(capacity - 1) : DeviceCopy(i) = at(i)

\* C10: copy_device_to_host() changes nothing on the host: the contents of
\* every host buffer, data(), size() and capacity() are as before the call.
C10_CopyDeviceToHostIsNoOp ==
  [][copy_device_to_host =>
        /\ heap' = heap /\ data_' = data_
        /\ size' = size /\ capacity' = capacity]_vars

\* C10 witness: copy_device_to_host() has run on a mirrored array whose device
\* copy differs from the host buffer.
C10_Witness ==
  /\ last = "copy_device_to_host" /\ Mirrored
  /\ \E i \in 0..(capacity - 1) : DeviceCopy(i) # at(i)

\* device_at(i) returns a reference to device_data_[i]: reading it is defined
\* only while device_data_ points to an allocated buffer that has a slot i
DeviceAtReadable(i) ==
  IsLive(device_data_) /\ i >= 0 /\ i < Len(heap[device_data_].cells)

\* C11 as stated: clear() on an array mirrored by allocate_on_device() releases
\* the host buffer and zeroes size and capacity, while the device mirror stays
\* allocated, keeps its contents, and every slot of it can still be read
\* through device_at.
C11_ClearLeavesMirrorReadable ==
  [][(Mirrored /\ clear) =>
        /\ ~heap'[data_].live /\ size' = 0 /\ capacity' = 0
        /\ device_data_' = device_data_
        /\ dev'[device_data_].mapped
        /\ dev'[device_data_].cells = dev[device_data_].cells
        /\ \A i \in 0..(capacity_ - 1) : DeviceAtReadable(i)']_vars

\* C12 as stated: once clear() or the destructor has returned, no device buffer
\* that allocate_on_device() allocated for the array is still allocated.
C12_NoDeviceBufferAfterClear ==
  (last \in {"clear", "~SharedArray"}) => \A p \in BufIds : ~dev[p].mapped

C14_CheckAfterClaim ==
  [][/\ \A v \in Values :
           (thread_safe_append_claim(v) /\ size_ >= capacity_) =>
              /\ size_' = size_ + 1 /\ size_' > capacity_
              /\ heap' = heap
              /\ BagIn([idx |-> size_, value |-> v], calls')
     /\ \A c \in BagToSet(calls) :
           (thread_safe_append_finish(c) /\ c.idx >= capacity_) =>
              /\ size_' = capacity_ /\ heap' = heap
              /\ calls' = calls (-) SetToBag({c})
              /\ hist' = hist (+) SetToBag({<<c.value, REFUSED>>})]_vars

\* C14 witness: an append that found a full array of at least one slot is
\* between its increment and its clamp, and the counter is above the capacity.
C14_Witness ==
  /\ fault = "none" /\ capacity_ > 0 /\ size_ > capacity_
  /\ \E c \in BagToSet(calls) : c.idx = capacity_

\* C15 as stated: in every state in which an append has returned -1 (it has,
\* then, in every later state too) and no append is in flight, size() ==
\* capacity().
C15_SizeIsCapacityOnceRefused ==
  [][(NumReturned(REFUSED) > 0 /\ Quiescent) =>
        (Quiescent' => size' = capacity')]_vars

\* C15 amended: in every state in which an append has returned -1 since the
\* last reserve, resize or clear, and no append is in flight, size() ==
\* capacity().
C15_SizeIsCapacityAfterRefusal ==
  (NumReturned(REFUSED) > 0 /\ Quiescent) => size = capacity

\* C15 witness: of three appends, two of them concurrent, one got a slot and two
\* were refused; all have returned.
C15_Witness ==
  /\ Quiescent /\ fault = "none"
  /\ NumReturned(REFUSED) >= 2 /\ ReturnedIndices # {}
  /\ size = capacity

\* C16: resize(n) makes size() = n, for any n, and changes neither capacity(),
\* data() nor any element; the append that follows a resize(n) with 0 <= n <
\* capacity claims index n, and an append that claimed such an index writes its
\* value to that slot, to no other, and returns the index.
C16_ResizeSetsSizeOnly ==
  [][/\ \A n \in ResizeArgs :
           resize(n) => /\ size' = n /\ capacity' = capacity
                        /\ data_' = data_ /\ heap' = heap
     /\ \A v \in Values :
           (/\ last = "resize" /\ hist = EmptyBag /\ Quiescent
            /\ 0 <= size /\ size < capacity
            /\ thread_safe_append_claim(v))
              => calls' = SetToBag({[idx |-> size, value |-> v]})
     /\ \A c \in BagToSet(calls) :
           (/\ last = "resize" /\ 0 <= c.idx /\ c.idx < capacity
            /\ thread_safe_append_finish(c))
              => /\ IsLive(data_)
                 /\ heap' = [heap EXCEPT ![data_].cells[c.idx + 1] = c.value]
                 /\ hist' = hist (+) SetToBag({<<c.value, c.idx>>})]_vars

\* C16 witness: one append has returned since a resize(n) with 0 < n <
\* capacity: it returned n, slot n holds its value and the size is n + 1.
C16_Witness ==
  /\ last = "resize" /\ Quiescent /\ BagCardinality(hist) = 1
  /\ \E v \in Values, n \in 1..(capacity - 1) :
        /\ BagIn(<<v, n>>, hist)
        /\ at(n) = v
        /\ size = n + 1

\* C17 as stated: every element write of thread_safe_append targets an index
\* idx with 0 <= idx < capacity of a currently allocated buffer: no append in
\* flight is about to write elsewhere, and none has.
C17_AppendWritesWithinCapacity ==
  /\ fault # "write outside the buffer"
  /\ \A c \in BagToSet(calls) :
        c.idx < capacity_ =>
           /\ 0 <= c.idx
           /\ IsLive(data_) /\ c.idx < Len(heap[data_].cells)

\* C18: once an append has returned -1, and until reserve, resize or clear is
\* called, every append that starts claims an index that is not below the
\* capacity, and every append that claimed such an index returns -1.
C18_RefusalIsSticky ==
  [][/\ \A v \in Values :
           (NumReturned(REFUSED) > 0 /\ thread_safe_append_claim(v)) =>
              \E c \in BagToSet(calls') :
                 /\ calls' = calls (+) SetToBag({c})
                 /\ c.value = v /\ c.idx >= capacity_
     /\ \A c \in BagToSet(calls) :
           (thread_safe_append_finish(c) /\ c.idx >= capacity_) =>
              /\ hist' = hist (+) SetToBag({<<c.value, REFUSED>>})
              /\ capacity_' = capacity_]_vars

\* C18 witness: an array with slots has refused an append, and the only append
\* in flight started after that refusal (the size is still what its increment
\* made of the clamped size): it has claimed the index capacity.
C18_Witness ==
  /\ fault = "none" /\ capacity_ > 0
  /\ NumReturned(REFUSED) > 0 /\ ReturnedIndices # {}
  /\ InFlight = 1 /\ size_ = capacity_ + 1
  /\ \E c \in BagToSet(calls) : c.idx = capacity_

\* the host buffers that were allocated and have not been released
LiveBufs == {p \in BufIds : heap[p].live}

\* C19 as stated: at most one host buffer is allocated at any time, no clear()
\* releases a pointer that is not an allocated buffer, and once a clear() has
\* returned every buffer the array allocated has been released.
C19_HostStorageBalanced ==
  /\ Cardinality(LiveBufs) <= 1
  /\ fault # "delete[] of a pointer that is not an allocation"
  /\ (last = "clear") => LiveBufs = {}

====
